---- MODULE Spec2Model ----
(***************************************************************************)
(* GPR2PIC: the GSSI DZT decoder read_gssi_dzt_final, the exporter         *)
(* process_and_export_images / _plot_and_save_image and the batch driver   *)
(* main of MAIN.py, as a state machine over the lines of the code.         *)
(***************************************************************************)
EXTENDS Integers, Sequences, FiniteSets, TLC

\* ------------------------------------------------------------------ bounds
MaxData == 9
MaxFiles == 2

\* ------------------------------------------------------- program constants
HeaderSize == 1024
DataStartPosition == 1024
LengthThresholdM == 100
WindowTraces == 1200

Min(a, b) == IF a < b THEN a ELSE b

RECURSIVE Pow2(_)
Pow2(k) == IF k = 0 THEN 1 ELSE 2 * Pow2(k - 1)

RECURSIVE Gcd(_, _)
Gcd(a, b) == IF b = 0 THEN a ELSE Gcd(b, a % b)

\* Optional values (Python None): the empty sequence, or <<v>>.
None == << >>
Some(v) == << v >>
IsNone(o) == o = << >>
Val(o) == o[1]

\* ------------------------------------------------------------------ floats
\* A Python float: class (finite, infinite, not-a-number), sign bit and the
\* magnitude as the reduced fraction n/d.
Fin(neg, n, d) == [cls |-> "fin", neg |-> neg, n |-> n, d |-> d]
Inf(neg) == [cls |-> "inf", neg |-> neg, n |-> 0, d |-> 1]
NaN == [cls |-> "nan", neg |-> FALSE, n |-> 0, d |-> 1]
FloatOfInt(k) == IF k < 0 THEN Fin(TRUE, 0 - k, 1) ELSE Fin(FALSE, k, 1)

IsZero(x) == x.cls = "fin" /\ x.n = 0

\* x <= 0 on Python floats: False for nan, True for +0.0 and -0.0.
FloatLeZero(x) == x.cls # "nan" /\ (x.neg \/ IsZero(x))

\* x < k for an integer k > 0.
FloatLessInt(x, k) ==
    /\ x.cls # "nan"
    /\ \/ x.neg
       \/ x.cls = "fin" /\ x.n < k * x.d

\* Strip the factors of two a significand shares with a negative exponent.
RECURSIVE NormSig(_, _)
NormSig(sig, e) ==
    IF e < 0 /\ sig > 0 /\ sig % 2 = 0 THEN NormSig(sig \div 2, e + 1) ELSE <<sig, e>>

\* The value sig * 2^e as a float.
Scaled(neg, sig, e) ==
    LET p == NormSig(sig, e)
    IN  IF p[2] >= 0 THEN Fin(neg, p[1] * Pow2(p[2]), 1)
        ELSE Fin(neg, p[1], Pow2(0 - p[2]))

\* struct.unpack('<f', b): IEEE-754 binary32 from four little-endian bytes.
UnpackFloatLE(b) ==
    LET neg  == b[4] \div 128 = 1
        exp  == (b[4] % 128) * 2 + b[3] \div 128
        mant == (b[3] % 128) * 65536 + b[2] * 256 + b[1]
    IN  IF exp = 255 THEN (IF mant = 0 THEN Inf(neg) ELSE NaN)
        ELSE IF exp = 0 THEN (IF mant = 0 THEN Fin(neg, 0, 1) ELSE Scaled(neg, mant, 0 - 149))
        ELSE Scaled(neg, 8388608 + mant, exp - 150)

\* total_traces / scans_per_meter for an int k >= 0 and a float x; Python
\* raises ZeroDivisionError for a zero divisor of either sign.
DivRaises(k, x) == IsZero(x)
IntDivFloat(k, x) ==
    IF x.cls = "nan" THEN NaN
    ELSE IF x.cls = "inf" THEN Fin(x.neg, 0, 1)
    ELSE LET g == Gcd(k * x.d, x.n)
         IN  Fin(x.neg, (k * x.d) \div g, x.n \div g)

\* ------------------------------------------------------------------ structs
\* struct.unpack('<h', b) and struct.unpack('>h', b): signed 16-bit integer.
Signed16(u) == IF u >= 32768 THEN u - 65536 ELSE u
UnpackShortLE(b) == Signed16(b[1] + 256 * b[2])
UnpackShortBE(b) == Signed16(256 * b[1] + b[2])

\* A little-endian two's-complement integer of Len(b) bytes (numpy '<i2', '<i4').
RECURSIVE UnsignedLE(_)
UnsignedLE(b) == IF Len(b) = 0 THEN 0 ELSE b[1] + 256 * UnsignedLE(Tail(b))
RECURSIVE Pow256(_)
Pow256(k) == IF k = 0 THEN 1 ELSE 256 * Pow256(k - 1)
SignedLE(b) ==
    LET w  == Len(b)
        hi == b[w]
    IN  UnsignedLE(SubSeq(b, 1, w - 1)) + (IF hi >= 128 THEN hi - 256 ELSE hi) * Pow256(w - 1)

\* Python slice s[a:b] of a byte string.
Slice(s, a, b) == SubSeq(s, a + 1, Min(b, Len(s)))

\* ------------------------------------------------------------------- files
\* A file on disk: a name suffix, whether open() succeeds, hlen bytes of
\* header region (1024 unless the file is truncated) and the data region.
\* The header bytes are key[off] at the offsets of key, fill elsewhere.
KeyOffsets == {4, 5, 6, 7, 40, 41, 42, 43, 51, 52}

ByteAt(file, off) ==
    IF off < HeaderSize
    THEN (IF off \in KeyOffsets THEN file.key[off] ELSE file.fill)
    ELSE file.data[off - HeaderSize + 1]

FileSize(file) == IF file.hlen < HeaderSize THEN file.hlen ELSE HeaderSize + Len(file.data)

\* f.read(n) at position pos: the bytes up to the end of the file.
FileRead(file, pos, n) ==
    [i \in 1..Min(n, FileSize(file) - pos) |-> ByteAt(file, pos + i - 1)]

MkKey(sp, bp, fp, cp) ==
    [o \in KeyOffsets |->
        CASE o = 4 -> sp[1] [] o = 5 -> sp[2]
          [] o = 6 -> bp[1] [] o = 7 -> bp[2]
          [] o = 40 -> fp[1] [] o = 41 -> fp[2] [] o = 42 -> fp[3] [] o = 43 -> fp[4]
          [] o = 51 -> cp[1] [] o = 52 -> cp[2]]

MkFile(dzt, readable, hlen, sp, bp, fp, cp, fill, data) ==
    [dzt |-> dzt, readable |-> readable, hlen |-> hlen,
     key |-> MkKey(sp, bp, fp, cp), fill |-> fill, data |-> data]

\* ------------------------------------------------------------------- numpy
\* np.fromfile(f, dtype, count) at position pos with items of w bytes: at most
\* count items, fewer when the file ends first (a partial trailing item is
\* dropped), each a little-endian signed integer.
FromFileCount(file, pos, w, count) == Min(count, (FileSize(file) - pos) \div w)
FromFile(file, pos, w, count) ==
    [i \in 1..FromFileCount(file, pos, w, count) |->
        SignedLE(FileRead(file, pos + (i - 1) * w, w))]

\* ndarray.reshape((rows, cols), order='F'): the flat items are laid down in
\* stream order with the first index varying fastest.
RECURSIVE FortranFill(_, _, _, _)
FortranFill(flat, rows, s, t) ==
    IF Len(flat) = 0 THEN << >>
    ELSE (<<s, t>> :> Head(flat)) @@
         FortranFill(Tail(flat), rows,
                     IF s + 1 = rows THEN 0 ELSE s + 1,
                     IF s + 1 = rows THEN t + 1 ELSE t)

\* order='C' (row-major): the last index varies fastest.
RECURSIVE RowMajorFill(_, _, _, _)
RowMajorFill(flat, cols, s, t) ==
    IF Len(flat) = 0 THEN << >>
    ELSE (<<s, t>> :> Head(flat)) @@
         RowMajorFill(Tail(flat), cols,
                      IF t + 1 = cols THEN s + 1 ELSE s,
                      IF t + 1 = cols THEN 0 ELSE t + 1)

ReshapeRowMajor(flat, w, rows, cols) ==
    [dtype |-> w, rows |-> rows, cols |-> cols, el |-> RowMajorFill(flat, cols, 0, 0)]

\* reshape raises ValueError unless the item count is rows * cols.
ReshapeRaises(flat, rows, cols) == Len(flat) # rows * cols
Reshape(flat, w, rows, cols) ==
    [dtype |-> w, rows |-> rows, cols |-> cols, el |-> FortranFill(flat, rows, 0, 0)]

\* ----------------------------------------------------------------- decoder
\* The return value of read_gssi_dzt_final: (matrix, metadata), each or None.
NonePair == [matrix |-> None, info |-> None]

\* Line 21: channel count, big-endian at offset 51.
DecodeNumChannels(hd) == UnpackShortBE(Slice(hd, 51, 53))

\* A decoder that reads offset 4 with the byte order of offset 51.
DecodeSamplesPerTraceBigEndian(hd) == UnpackShortBE(Slice(hd, 4, 6))

\* Line 25: samples per trace, little-endian at offset 4.
DecodeSamplesPerTrace(hd) == UnpackShortLE(Slice(hd, 4, 6))

\* Line 28: bits per sample, little-endian at offset 6.
DecodeBitsPerSample(hd) == UnpackShortLE(Slice(hd, 6, 8))

\* Line 31: scans per meter, little-endian float at offset 40.
DecodeScansPerMeter(hd) == UnpackFloatLE(Slice(hd, 40, 44))

\* A gate that lets samples_per_trace = 0 through.
HeaderInvalidStrict(spt, bits) == spt < 0 \/ bits \notin {8, 16, 32}

\* Line 37: the validation condition.
HeaderInvalid(spt, bits) == spt <= 0 \/ bits \notin {8, 16, 32}

\* A trace size that takes the bit width for the byte width.
DenominatorInBits(spt, bits) == spt * bits

\* Lines 47-48: bytes per trace.
BytesPerSample(bits) == bits \div 8
Denominator(spt, bits) == spt * BytesPerSample(bits)

\* A guard that lets a trace count of zero through.
TraceCountNegative(traces) == traces < 0

\* Line 51: the empty-recording condition.
TraceCountEmpty(traces) == traces <= 0

\* A fallback taken for a value of exactly zero only.
NeedsFallbackOnlyZero(spm) == IsZero(spm)

\* Lines 55-58: the scans-per-meter fallback.
NeedsFallback(spm) == FloatLeZero(spm)
PostFallback(spm, dflt) == IF NeedsFallback(spm) THEN dflt ELSE spm

\* A read path that knows 16-bit samples only.
DataTypeWidthAlways16(bits) == 2

\* Line 63: the numpy dtype, as its item width in bytes.
DataTypeWidth(bits) == IF bits = 16 THEN 2 ELSE 4

\* A handler that hands back whatever matrix was built.
ExceptResultPartial(matrix) == [matrix |-> matrix, info |-> None]

\* Lines 81-83: what the except handler returns; matrix is the local
\* radar_data_matrix when the exception was raised.
ExceptResult(matrix) == NonePair

\* ---------------------------------------------------------------- exporter
\* Lines 108-122: the number of _plot_and_save_image calls for one recording:
\* one below the length threshold, else one per window of WindowTraces traces.
RECURSIVE WindowCount(_, _)
WindowCount(start, traces) ==
    IF start >= traces THEN 0 ELSE 1 + WindowCount(start + WindowTraces, traces)
PlotCalls(info) ==
    IF FloatLessInt(info.total_length_m, LengthThresholdM) THEN 1
    ELSE WindowCount(0, info.trace_count)

\* ------------------------------------------------------------------- inputs
\* Line 129: DEFAULT_SCANS_PER_METER = 200.0.
DefaultScansPerMeter == FloatOfInt(200)

\* Values a caller may supply as default_scans_per_meter.
Defaults == {DefaultScansPerMeter, FloatOfInt(0), FloatOfInt(0 - 5)}

\* Bytes 4..5: 0, 1, 2 and -1 as little-endian shorts.
SampleChoices == {<<0, 0>>, <<1, 0>>, <<2, 0>>, <<255, 255>>}
\* Bytes 6..7: 8, 16, 32, 24 and 4096 as little-endian shorts.
BitsChoices == {<<8, 0>>, <<16, 0>>, <<32, 0>>, <<24, 0>>, <<0, 16>>}
\* Bytes 40..43: 0.0, 100.0, -1.0, a NaN and 2^-6 as little-endian floats.
FloatChoices == {<<0, 0, 0, 0>>, <<0, 0, 200, 66>>, <<0, 0, 128, 191>>,
                 <<0, 0, 192, 127>>, <<0, 0, 128, 60>>}
\* Bytes 51..52: 1 as a big-endian short.
ChannelBytes == <<0, 1>>

\* Data regions: ascending bytes, or descending bytes with the high bit set.
DataBytes(p, n) == [i \in 1..n |-> IF p = 1 THEN i ELSE 256 - i]
DataChoices == {DataBytes(p, n) : p \in {1, 2}, n \in 0..MaxData}

\* samples_per_trace=4, bits_per_sample=16, scans_per_meter=100.0, three
\* traces (24 bytes) and 3 trailing bytes.
EndToEndFile ==
    MkFile(TRUE, TRUE, HeaderSize, <<4, 0>>, <<16, 0>>, <<0, 0, 200, 66>>, ChannelBytes, 0,
           DataBytes(1, 27))

DecodeFiles ==
    {MkFile(TRUE, TRUE, HeaderSize, sp, bp, fp, ChannelBytes, 0, d) :
        sp \in SampleChoices, bp \in BitsChoices, fp \in FloatChoices, d \in DataChoices}
    \cup {EndToEndFile}

\* The files of a directory listing.
GoodFile(fill, fp, n) ==
    MkFile(TRUE, TRUE, HeaderSize, <<2, 0>>, <<16, 0>>, fp, ChannelBytes, fill, DataBytes(2, n))
BatchFiles ==
    { GoodFile(0, <<0, 0, 200, 66>>, 5),
      GoodFile(255, <<0, 0, 200, 66>>, 5),
      GoodFile(0, <<0, 0, 128, 60>>, 8),
      GoodFile(0, <<0, 0, 0, 0>>, 3),
      [GoodFile(0, <<0, 0, 200, 66>>, 5) EXCEPT !.dzt = FALSE],
      [GoodFile(0, <<0, 0, 200, 66>>, 5) EXCEPT !.readable = FALSE],
      [GoodFile(0, <<0, 0, 200, 66>>, 0) EXCEPT !.hlen = 6],
      MkFile(TRUE, TRUE, HeaderSize, <<0, 0>>, <<16, 0>>, <<0, 0, 200, 66>>, ChannelBytes, 0,
             DataBytes(1, 4)),
      MkFile(TRUE, TRUE, HeaderSize, <<2, 0>>, <<8, 0>>, <<0, 0, 200, 66>>, ChannelBytes, 0,
             DataBytes(1, 4)),
      MkFile(TRUE, TRUE, HeaderSize, <<1, 0>>, <<32, 0>>, <<0, 0, 200, 66>>, ChannelBytes, 0,
             DataBytes(2, 9)) }

RECURSIVE SeqsUpTo(_, _)
SeqsUpTo(S, n) ==
    IF n = 0 THEN {<< >>}
    ELSE LET shorter == SeqsUpTo(S, n - 1)
         IN  shorter \cup {Append(q, x) : q \in shorter, x \in S}

\* -------------------------------------------------------------------- state
VARIABLES
    files,                    \* os.listdir(data_directory), with each file's content
    default_scans_per_meter,  \* the decoder's second argument
    idx,                      \* main: the loop's position in the listing
    pc,                       \* the next step of the program
    found_files,              \* main: found_files
    radar_data,               \* main: radar_data (or None)
    header_info,              \* main: header_info (or None)
    f_pos,                    \* decoder: position of the open file f, or None when closed
    header_data,              \* decoder locals, None while unassigned
    num_channels,
    samples_per_trace,
    bits_per_sample,
    scans_per_meter,
    data_size,
    total_traces,
    raw_data,
    radar_data_matrix,
    calls,                    \* per file: calls of read_gssi_dzt_final
    ret,                      \* per file: what read_gssi_dzt_final returned
    outcome,                  \* per file: the return statement taken
    io,                       \* per file: the operations made on f
    log,                      \* per file: the messages printed
    exports,                  \* per file: calls of process_and_export_images
    images                    \* per file: images saved

mainVars == <<files, default_scans_per_meter, idx, found_files, radar_data, header_info>>
localVars == <<header_data, num_channels, samples_per_trace, bits_per_sample,
               scans_per_meter, data_size, total_traces, raw_data, radar_data_matrix>>
fileVars == <<calls, ret, outcome, io, log, exports, images>>
vars == <<mainVars, pc, f_pos, localVars, fileVars>>

NoLocals ==
    /\ header_data' = None
    /\ num_channels' = None
    /\ samples_per_trace' = None
    /\ bits_per_sample' = None
    /\ scans_per_meter' = None
    /\ data_size' = None
    /\ total_traces' = None
    /\ raw_data' = None
    /\ radar_data_matrix' = None

Init ==
    /\ \/ /\ files \in {<<f>> : f \in DecodeFiles}
          /\ default_scans_per_meter \in Defaults
       \/ /\ files \in SeqsUpTo(BatchFiles, MaxFiles)
          /\ default_scans_per_meter = DefaultScansPerMeter
    /\ idx = 0
    /\ pc = "main"
    /\ found_files = FALSE
    /\ radar_data = None
    /\ header_info = None
    /\ f_pos = None
    /\ header_data = None
    /\ num_channels = None
    /\ samples_per_trace = None
    /\ bits_per_sample = None
    /\ scans_per_meter = None
    /\ data_size = None
    /\ total_traces = None
    /\ raw_data = None
    /\ radar_data_matrix = None
    /\ calls = [i \in 1..Len(files) |-> 0]
    /\ ret = [i \in 1..Len(files) |-> None]
    /\ outcome = [i \in 1..Len(files) |-> "none"]
    /\ io = [i \in 1..Len(files) |-> << >>]
    /\ log = [i \in 1..Len(files) |-> << >>]
    /\ exports = [i \in 1..Len(files) |-> 0]
    /\ images = [i \in 1..Len(files) |-> 0]

\* ------------------------------------------------------------------ actions
CurFile == files[idx]

\* A return of read_gssi_dzt_final to line 143 of main: the with-block closes
\* f, the locals go away, and main binds radar_data and header_info.
Return(r, kind, msgs, ops) ==
    /\ ret' = [ret EXCEPT ![idx] = Some(r)]
    /\ outcome' = [outcome EXCEPT ![idx] = kind]
    /\ log' = [log EXCEPT ![idx] = @ \o msgs]
    /\ io' = [io EXCEPT ![idx] = @ \o ops]
    /\ radar_data' = r.matrix
    /\ header_info' = r.info
    /\ f_pos' = None
    /\ NoLocals
    /\ pc' = "returned"
    /\ UNCHANGED <<files, default_scans_per_meter, idx, found_files, calls, exports, images>>

\* Lines 81-83: an exception raised inside the try block.
Raise(msgs, ops) ==
    Return(ExceptResult(radar_data_matrix), "exception", msgs \o <<"critical">>, ops)

\* A step inside the decoder that does not return.
Step(next, msgs, ops) ==
    /\ pc' = next
    /\ log' = [log EXCEPT ![idx] = @ \o msgs]
    /\ io' = [io EXCEPT ![idx] = @ \o ops]
    /\ UNCHANGED <<mainVars, calls, ret, outcome, exports, images>>

\* Lines 139-143: the next directory entry; a .dzt name is handed to the decoder.
MainNextFile ==
    /\ pc = "main"
    /\ idx < Len(files)
    /\ idx' = idx + 1
    /\ IF files[idx + 1].dzt
       THEN /\ found_files' = TRUE
            /\ calls' = [calls EXCEPT ![idx + 1] = @ + 1]
            /\ pc' = "open"
       ELSE /\ UNCHANGED <<found_files, calls>>
            /\ pc' = "main"
    /\ UNCHANGED <<files, default_scans_per_meter, radar_data, header_info, f_pos,
                   localVars, ret, outcome, io, log, exports, images>>

\* Lines 11-16: open the file and read the header block.
ReadHeader ==
    /\ pc = "open"
    /\ IF ~CurFile.readable
       THEN Raise(<< >>, << >>)
       ELSE LET hd == FileRead(CurFile, 0, HeaderSize)
                op == [op |-> "read", at |-> 0, n |-> HeaderSize, got |-> Len(hd)]
            IN  IF Len(hd) < HeaderSize
                THEN Return(NonePair, "truncated", <<"header_short">>, <<op>>)
                ELSE /\ header_data' = Some(hd)
                     /\ f_pos' = Some(Len(hd))
                     /\ Step("parse", << >>, <<op>>)
                     /\ UNCHANGED <<num_channels, samples_per_trace, bits_per_sample,
                                    scans_per_meter, data_size, total_traces, raw_data,
                                    radar_data_matrix>>

\* Lines 20-35: decode the four header fields.
ParseHeader ==
    /\ pc = "parse"
    /\ num_channels' = Some(DecodeNumChannels(Val(header_data)))
    /\ samples_per_trace' = Some(DecodeSamplesPerTrace(Val(header_data)))
    /\ bits_per_sample' = Some(DecodeBitsPerSample(Val(header_data)))
    /\ scans_per_meter' = Some(DecodeScansPerMeter(Val(header_data)))
    /\ Step("validate", <<"channels", "debug">>, << >>)
    /\ UNCHANGED <<f_pos, header_data, data_size, total_traces, raw_data, radar_data_matrix>>

\* Lines 37-39: the validation gate.
Validate ==
    /\ pc = "validate"
    /\ IF HeaderInvalid(Val(samples_per_trace), Val(bits_per_sample))
       THEN Return(NonePair, "invalid_header", <<"invalid">>, << >>)
       ELSE /\ Step("measure", << >>, << >>)
            /\ UNCHANGED <<f_pos, localVars>>

\* Lines 42-49: measure the data region and count the complete traces.
MeasureData ==
    /\ pc = "measure"
    /\ LET size == FileSize(CurFile)
           ops  == <<[op |-> "seek_end"], [op |-> "tell", pos |-> size]>>
           den  == Denominator(Val(samples_per_trace), Val(bits_per_sample))
       IN  IF den = 0
           THEN Raise(<< >>, ops)
           ELSE /\ f_pos' = Some(size)
                /\ data_size' = Some(size - DataStartPosition)
                /\ total_traces' = Some((size - DataStartPosition) \div den)
                /\ Step("check_empty", << >>, ops)
                /\ UNCHANGED <<header_data, num_channels, samples_per_trace, bits_per_sample,
                               scans_per_meter, raw_data, radar_data_matrix>>

\* Lines 51-53: the empty-recording guard.
CheckEmpty ==
    /\ pc = "check_empty"
    /\ IF TraceCountEmpty(Val(total_traces))
       THEN Return(NonePair, "empty", <<"empty">>, << >>)
       ELSE /\ Step("fallback", << >>, << >>)
            /\ UNCHANGED <<f_pos, localVars>>

\* Lines 55-58: substitute the default for a non-positive scans per meter.
Fallback ==
    /\ pc = "fallback"
    /\ scans_per_meter' = Some(PostFallback(Val(scans_per_meter), default_scans_per_meter))
    /\ Step("read", IF NeedsFallback(Val(scans_per_meter)) THEN <<"fallback">> ELSE << >>, << >>)
    /\ UNCHANGED <<f_pos, header_data, num_channels, samples_per_trace, bits_per_sample,
                   data_size, total_traces, raw_data, radar_data_matrix>>

\* Lines 60-68: read the samples and reshape them into the matrix.
ReadData ==
    /\ pc = "read"
    /\ LET w     == DataTypeWidth(Val(bits_per_sample))
           count == Val(total_traces) * Val(samples_per_trace)
           flat  == FromFile(CurFile, DataStartPosition, w, count)
           ops   == <<[op |-> "seek", pos |-> DataStartPosition],
                      [op |-> "fromfile", at |-> DataStartPosition, width |-> w,
                       count |-> count, got |-> Len(flat)]>>
       IN  IF ReshapeRaises(flat, Val(samples_per_trace), Val(total_traces))
           THEN Raise(<< >>, ops)
           ELSE /\ raw_data' = Some(flat)
                /\ radar_data_matrix' =
                       Some(Reshape(flat, w, Val(samples_per_trace), Val(total_traces)))
                /\ f_pos' = Some(DataStartPosition + w * Len(flat))
                /\ Step("info", <<"read_ok">>, ops)
                /\ UNCHANGED <<header_data, num_channels, samples_per_trace, bits_per_sample,
                               scans_per_meter, data_size, total_traces>>

\* Lines 70-79: complete the metadata and return the pair.
BuildInfo ==
    /\ pc = "info"
    /\ IF DivRaises(Val(total_traces), Val(scans_per_meter))
       THEN Raise(<< >>, << >>)
       ELSE Return([matrix |-> radar_data_matrix,
                    info |-> Some([samples_per_trace |-> Val(samples_per_trace),
                                   bits_per_sample |-> Val(bits_per_sample),
                                   scans_per_meter |-> Val(scans_per_meter),
                                   trace_count |-> Val(total_traces),
                                   total_length_m |->
                                       IntDivFloat(Val(total_traces), Val(scans_per_meter))])],
                   "ok", <<"summary">>, << >>)

\* Line 145: only a returned matrix is exported.
MainAfterDecode ==
    /\ pc = "returned"
    /\ pc' = IF ~IsNone(radar_data) THEN "export" ELSE "separator"
    /\ UNCHANGED <<mainVars, f_pos, localVars, fileVars>>

\* Lines 146-152, 103-123 and 86-100: export the recording. Each image is
\* built by lines 87-94, outside any try block, and saved by line 96 inside
\* one: an exception of savefig is reported and swallowed, an exception of
\* the lines before it leaves main.
Export ==
    /\ pc = "export"
    /\ LET n == PlotCalls(Val(header_info))
       IN  \E raisedAt \in 0..n, saved \in BOOLEAN :
             /\ exports' = [exports EXCEPT ![idx] = @ + 1]
             /\ IF raisedAt = 0
                THEN /\ images' = [images EXCEPT ![idx] = IF saved THEN n ELSE 0]
                     /\ log' = [log EXCEPT ![idx] =
                                   @ \o <<IF saved THEN "saved" ELSE "save_error", "processed">>]
                     /\ pc' = "separator"
                ELSE /\ images' = [images EXCEPT ![idx] = IF saved THEN raisedAt - 1 ELSE 0]
                     /\ log' = [log EXCEPT ![idx] = @ \o <<"traceback">>]
                     /\ pc' = "aborted"
    /\ UNCHANGED <<mainVars, f_pos, localVars, calls, ret, outcome, io>>

\* Line 153: the separator line that ends one file.
Separator ==
    /\ pc = "separator"
    /\ log' = [log EXCEPT ![idx] = @ \o <<"separator">>]
    /\ pc' = "main"
    /\ UNCHANGED <<mainVars, f_pos, localVars, calls, ret, outcome, io, exports, images>>

\* Lines 155-156: the listing is exhausted.
MainEnd ==
    /\ pc = "main"
    /\ idx = Len(files)
    /\ pc' = "done"
    /\ UNCHANGED <<mainVars, f_pos, localVars, fileVars>>

Next ==
    \/ MainNextFile
    \/ ReadHeader
    \/ ParseHeader
    \/ Validate
    \/ MeasureData
    \/ CheckEmpty
    \/ Fallback
    \/ ReadData
    \/ BuildInfo
    \/ MainAfterDecode
    \/ Export
    \/ Separator
    \/ MainEnd

Spec == Init /\ [][Next]_vars

\* ------------------------------------------------------------- properties
\* The header fields of a file, read off its bytes.
RefSigned16(lo, hi) == IF hi >= 128 THEN lo + 256 * hi - 65536 ELSE lo + 256 * hi
RefSamples(f) == RefSigned16(f.key[4], f.key[5])
RefBits(f) == RefSigned16(f.key[6], f.key[7])
RefChannels(f) == RefSigned16(f.key[52], f.key[51])
RefFloatBytes(f) == <<f.key[40], f.key[41], f.key[42], f.key[43]>>
\* The float values of FloatChoices.
RefScans(f) ==
    CASE RefFloatBytes(f) = <<0, 0, 0, 0>> -> [cls |-> "fin", neg |-> FALSE, n |-> 0, d |-> 1]
      [] RefFloatBytes(f) = <<0, 0, 200, 66>> -> [cls |-> "fin", neg |-> FALSE, n |-> 100, d |-> 1]
      [] RefFloatBytes(f) = <<0, 0, 128, 191>> -> [cls |-> "fin", neg |-> TRUE, n |-> 1, d |-> 1]
      [] RefFloatBytes(f) = <<0, 0, 192, 127>> -> [cls |-> "nan", neg |-> FALSE, n |-> 0, d |-> 1]
      [] RefFloatBytes(f) = <<0, 0, 128, 60>> -> [cls |-> "fin", neg |-> FALSE, n |-> 1, d |-> 64]
RefScansSign(f) ==
    CASE RefFloatBytes(f) = <<0, 0, 0, 0>> -> "zero"
      [] RefFloatBytes(f) = <<0, 0, 200, 66>> -> "positive"
      [] RefFloatBytes(f) = <<0, 0, 128, 191>> -> "negative"
      [] RefFloatBytes(f) = <<0, 0, 192, 127>> -> "nan"
      [] RefFloatBytes(f) = <<0, 0, 128, 60>> -> "positive"

FullHeader(f) == f.dzt /\ f.readable /\ f.hlen = HeaderSize
RefValid(f) == RefSamples(f) > 0 /\ RefBits(f) \in {8, 16, 32}
Finished(i) == ~IsNone(ret[i])
Returned(i) == Val(ret[i])
InDataPhase == pc \in {"measure", "check_empty", "fallback", "read", "info"}
Has(seq, x) == \E k \in 1..Len(seq) : seq[k] = x
DataOps(i) == {k \in 1..Len(io[i]) : io[i][k].op # "read"}

\* C1 (validation gate): a full header whose samples_per_trace is <= 0 or whose
\* bits_per_sample is not 8, 16 or 32 ends in the invalid-header return with no
\* matrix and no metadata, and the only operation ever made on the file is the
\* header read: no seek, no tell, no sample read.
C1_ValidationGate ==
    /\ InDataPhase => RefValid(CurFile)
    /\ \A i \in 1..Len(files) :
          (FullHeader(files[i]) /\ ~RefValid(files[i])) =>
             /\ DataOps(i) = {}
             /\ Finished(i) =>
                   /\ outcome[i] = "invalid_header"
                   /\ Returned(i) = [matrix |-> << >>, info |-> << >>]

C1_Witness ==
    \E i \in 1..Len(files) :
        /\ outcome[i] = "invalid_header"
        /\ RefSamples(files[i]) = 0
        /\ RefBits(files[i]) = 16
        /\ Len(files[i].data) >= 2

\* C2 (header field decoding): samples_per_trace is the signed little-endian
\* short of bytes 4..5, bits_per_sample that of bytes 6..7, channel_count the
\* signed big-endian short of bytes 51..52, scans_per_meter the float of bytes
\* 40..43; and two files with full headers that agree on those bytes and on
\* the data region get the same return value through the same return.
C2_HeaderFieldDecoding ==
    /\ pc \in {"validate", "measure", "check_empty", "fallback"} =>
          /\ Val(samples_per_trace) = RefSamples(CurFile)
          /\ Val(bits_per_sample) = RefBits(CurFile)
          /\ Val(num_channels) = RefChannels(CurFile)
          /\ Val(scans_per_meter) = RefScans(CurFile)
    /\ \A i \in 1..Len(files) :
          outcome[i] = "ok" =>
             /\ Val(Returned(i).info).samples_per_trace = RefSamples(files[i])
             /\ Val(Returned(i).info).bits_per_sample = RefBits(files[i])
    /\ \A i, j \in 1..Len(files) :
          (/\ Finished(i) /\ Finished(j)
           /\ FullHeader(files[i]) /\ FullHeader(files[j])
           /\ files[i].key = files[j].key
           /\ files[i].data = files[j].data) =>
             /\ Returned(i) = Returned(j)
             /\ outcome[i] = outcome[j]

\* Two decoded recordings that differ in the uninterpreted header bytes only,
\* with a samples_per_trace whose two bytes differ.
C2_Witness ==
    \E i, j \in 1..Len(files) :
        /\ outcome[i] = "ok" /\ outcome[j] = "ok"
        /\ files[i].fill # files[j].fill
        /\ files[i].key = files[j].key
        /\ files[i].data = files[j].data
        /\ files[i].key[4] # files[i].key[5]
        /\ Val(Returned(i).info).samples_per_trace = 2

\* The size of one trace and of the data region, read off the file.
RefTraceBytes(f) == RefSamples(f) * (RefBits(f) \div 8)
RefDataSize(f) == Len(f.data)
FromFileOps(i) == {k \in 1..Len(io[i]) : io[i][k].op = "fromfile"}
TruncatedTo(f, n) == [f EXCEPT !.data = SubSeq(f.data, 1, n)]

\* C3 (trace-count floor): a successful decode reports trace_count =
\* floor(N / B) for a data region of N bytes and a trace of B bytes; the one
\* sample read starts at the data region and consumes trace_count * B bytes,
\* and the matrix is the one the file without its trailing N mod B bytes gives.
C3_TraceCountFloor ==
    \A i \in 1..Len(files) :
        outcome[i] = "ok" =>
           LET f    == files[i]
               info == Val(Returned(i).info)
               m    == Val(Returned(i).matrix)
               used == (RefDataSize(f) \div RefTraceBytes(f)) * RefTraceBytes(f)
           IN  /\ info.trace_count = RefDataSize(f) \div RefTraceBytes(f)
               /\ \A k \in FromFileOps(i) :
                     /\ io[i][k].at = HeaderSize
                     /\ io[i][k].width * io[i][k].got = used
               /\ Cardinality(FromFileOps(i)) = 1
               /\ m = Reshape(FromFile(TruncatedTo(f, used), HeaderSize, m.dtype,
                                       info.trace_count * info.samples_per_trace),
                              m.dtype, info.samples_per_trace, info.trace_count)

\* samples_per_trace=4, bits_per_sample=16, scans_per_meter=100.0, 24 bytes of
\* traces and 3 trailing bytes: trace_count 3, length 3/100 m, shape [4, 3].
C3_Witness ==
    \E i \in 1..Len(files) :
        /\ outcome[i] = "ok"
        /\ files[i] = EndToEndFile
        /\ RefDataSize(files[i]) % RefTraceBytes(files[i]) = 3
        /\ Val(Returned(i).info).trace_count = 3
        /\ Val(Returned(i).info).total_length_m = [cls |-> "fin", neg |-> FALSE, n |-> 3, d |-> 100]
        /\ Val(Returned(i).matrix).rows = 4
        /\ Val(Returned(i).matrix).cols = 3

\* The k-th (from 0) little-endian signed sample of w bytes of the data region.
RefByte(f, k) == f.data[k + 1]
RefSample(f, w, k) ==
    IF w = 2
    THEN RefSigned16(RefByte(f, 2 * k), RefByte(f, 2 * k + 1))
    ELSE RefByte(f, 4 * k) + 256 * RefByte(f, 4 * k + 1) + 65536 * RefByte(f, 4 * k + 2)
         + 16777216 * (IF RefByte(f, 4 * k + 3) >= 128 THEN RefByte(f, 4 * k + 3) - 256
                       ELSE RefByte(f, 4 * k + 3))

\* C4 (reshape): a returned matrix has shape [samples_per_trace, trace_count]
\* and its element (s, t) is the sample at flat index t * samples_per_trace + s.
C4_ReshapeColumnMajor ==
    \A i \in 1..Len(files) :
        outcome[i] = "ok" =>
           LET f    == files[i]
               info == Val(Returned(i).info)
               m    == Val(Returned(i).matrix)
           IN  /\ m.rows = RefSamples(f)
               /\ m.cols = info.trace_count
               /\ DOMAIN m.el = (0..(m.rows - 1)) \X (0..(m.cols - 1))
               /\ \A s \in 0..(m.rows - 1), t \in 0..(m.cols - 1) :
                     m.el[<<s, t>>] = RefSample(f, RefBits(f) \div 8, t * RefSamples(f) + s)

\* A matrix of two rows and two columns with four different samples.
C4_Witness ==
    \E i \in 1..Len(files) :
        /\ outcome[i] = "ok"
        /\ Val(Returned(i).matrix).rows = 2
        /\ Val(Returned(i).matrix).cols = 2
        /\ Val(Returned(i).matrix).el[<<1, 0>>] # Val(Returned(i).matrix).el[<<0, 1>>]

\* C5 (empty-data guard): a valid header over a data region smaller than one
\* trace ends in the empty-recording return, which prints its own message and
\* not the invalid-header one, and returns no matrix and no metadata.
C5_EmptyDataGuard ==
    \A i \in 1..Len(files) :
        (/\ Finished(i)
         /\ FullHeader(files[i])
         /\ RefValid(files[i])
         /\ RefDataSize(files[i]) < RefTraceBytes(files[i])) =>
           /\ outcome[i] = "empty"
           /\ outcome[i] # "invalid_header"
           /\ Has(log[i], "empty")
           /\ ~Has(log[i], "invalid")
           /\ Returned(i) = [matrix |-> << >>, info |-> << >>]
           /\ exports[i] = 0

\* A 16-bit, two-sample header over three data bytes.
C5_Witness ==
    \E i \in 1..Len(files) :
        /\ outcome[i] = "empty"
        /\ RefSamples(files[i]) = 2
        /\ RefBits(files[i]) = 16
        /\ RefDataSize(files[i]) = 3

\* trace_count / x = q for floats x and q that are finite and nonzero.
IsQuotient(q, k, x) ==
    /\ q.cls = "fin"
    /\ q.neg = x.neg
    /\ q.n * x.n = k * x.d * q.d

\* C6 (fallback substitution): on a successful decode, a header
\* scans_per_meter that is zero or negative is replaced by the default and the
\* fallback warning is printed before the summary; a positive one is returned
\* unchanged without the warning; total_length_m is trace_count divided by
\* the returned scans_per_meter.
C6_FallbackSubstitution ==
    \A i \in 1..Len(files) :
        outcome[i] = "ok" =>
           LET f    == files[i]
               info == Val(Returned(i).info)
           IN  /\ RefScansSign(f) \in {"zero", "negative"} =>
                     /\ info.scans_per_meter = default_scans_per_meter
                     /\ \E a, b \in 1..Len(log[i]) :
                           a < b /\ log[i][a] = "fallback" /\ log[i][b] = "summary"
               /\ RefScansSign(f) = "positive" =>
                     /\ info.scans_per_meter = RefScans(f)
                     /\ ~Has(log[i], "fallback")
               /\ info.scans_per_meter.cls = "fin" =>
                     IsQuotient(info.total_length_m, info.trace_count, info.scans_per_meter)

\* A negative header value replaced by the default of main.
C6_Witness ==
    \E i \in 1..Len(files) :
        /\ outcome[i] = "ok"
        /\ RefScansSign(files[i]) = "negative"
        /\ Val(Returned(i).info).scans_per_meter = [cls |-> "fin", neg |-> FALSE, n |-> 200, d |-> 1]
        /\ Val(Returned(i).info).trace_count = 3
        /\ Val(Returned(i).info).total_length_m = [cls |-> "fin", neg |-> FALSE, n |-> 3, d |-> 200]

\* C7 (all-or-nothing): every return carries a matrix and a metadata record,
\* or neither; every return but the successful one carries neither, and main
\* holds exactly what was returned.
C7_AllOrNothing ==
    /\ IsNone(radar_data) <=> IsNone(header_info)
    /\ \A i \in 1..Len(files) :
          Finished(i) =>
             /\ IsNone(Returned(i).matrix) <=> IsNone(Returned(i).info)
             /\ outcome[i] # "ok" => Returned(i) = [matrix |-> << >>, info |-> << >>]
             /\ outcome[i] = "ok" => ~IsNone(Returned(i).matrix)

\* A division by a zero default after the matrix was read and reshaped.
C7_Witness ==
    \E i \in 1..Len(files) :
        /\ outcome[i] = "exception"
        /\ Has(log[i], "read_ok")
        /\ IsZero(default_scans_per_meter)
        /\ IsNone(Returned(i).matrix)

\* C8 (batch progress): when the run has ended, every .dzt file of the listing
\* was handed to the decoder exactly once, the exporter ran only for files
\* whose decode returned a matrix, and no file's error ended the run early.
C8_BatchProgress ==
    /\ pc # "aborted"
    /\ \A i \in 1..Len(files) : calls[i] <= 1
    /\ \A i \in 1..Len(files) :
          exports[i] > 0 => (Finished(i) /\ ~IsNone(Returned(i).matrix))
    /\ pc \in {"done", "aborted"} =>
          \A i \in 1..Len(files) : files[i].dzt => calls[i] = 1

\* The scans per meter after the fallback, read off the file and the default.
RefPostFallback(f) ==
    IF RefScansSign(f) \in {"zero", "negative"} THEN default_scans_per_meter ELSE RefScans(f)
RefPositive(x) == x.cls \in {"fin", "inf"} /\ ~x.neg /\ ~(x.cls = "fin" /\ x.n = 0)

\* C9 (pre-read invariant): whenever the sample read is reached,
\* samples_per_trace > 0, bits_per_sample is 8, 16 or 32 and the post-fallback
\* scans_per_meter is > 0, for every header and every default; and a decode
\* whose post-fallback scans_per_meter is not > 0 fails without a sample read
\* and without metadata.
C9_PreReadInvariant ==
    /\ pc = "read" =>
          /\ Val(samples_per_trace) > 0
          /\ Val(bits_per_sample) \in {8, 16, 32}
          /\ RefPositive(Val(scans_per_meter))
    /\ \A i \in 1..Len(files) :
          (/\ Finished(i)
           /\ FullHeader(files[i])
           /\ RefValid(files[i])
           /\ ~RefPositive(RefPostFallback(files[i]))) =>
             /\ outcome[i] # "ok"
             /\ FromFileOps(i) = {}
             /\ IsNone(Returned(i).info)

\* C10 (sample width): a returned matrix has items of bits_per_sample / 8 bytes
\* and the sample read consumed exactly the first trace_count *
\* samples_per_trace * (bits_per_sample / 8) bytes of the data region; a valid
\* header with bits_per_sample = 8 never ends in a returned matrix.
C10_SampleWidth ==
    \A i \in 1..Len(files) :
        /\ outcome[i] = "ok" =>
              LET f    == files[i]
                  info == Val(Returned(i).info)
                  m    == Val(Returned(i).matrix)
              IN  /\ m.dtype = RefBits(f) \div 8
                  /\ \A k \in FromFileOps(i) :
                        /\ io[i][k].at = HeaderSize
                        /\ io[i][k].width = RefBits(f) \div 8
                        /\ io[i][k].width * io[i][k].got =
                              info.trace_count * RefSamples(f) * (RefBits(f) \div 8)
                  /\ FromFileOps(i) # {}
        /\ (Finished(i) /\ FullHeader(files[i]) /\ RefValid(files[i]) /\ RefBits(files[i]) = 8) =>
              /\ outcome[i] \in {"empty", "exception"}
              /\ Returned(i) = [matrix |-> << >>, info |-> << >>]

\* An 8-bit recording with whole traces in its data region, whose read at the
\* 4-byte width came up short, next to a decoded 32-bit recording.
C10_Witness ==
    \E i, j \in 1..Len(files) :
        /\ RefBits(files[i]) = 8
        /\ outcome[i] = "exception"
        /\ RefDataSize(files[i]) >= RefSamples(files[i])
        /\ \E k \in FromFileOps(i) : io[i][k].width = 4 /\ io[i][k].got < io[i][k].count
        /\ RefBits(files[j]) = 32
        /\ outcome[j] = "ok"
        /\ Val(Returned(j).matrix).dtype = 4

====
